---- MODULE Spec2Model ----
(***************************************************************************)
(* join-ai: the comment stripper remove_comments                           *)
(* (src/src/decommenter/logic.rs) as a state machine.  One behaviour is    *)
(* one call of remove_comments(contents, lang); every action is one        *)
(* iteration of its `while cursor < contents.len()` loop, taken through    *)
(* one branch of the loop body, and Return is the loop exit.               *)
(*                                                                         *)
(* Spec calls it with the languages the unit tests use (rs, c) and         *)
(* SpecAnySyntax with any language a table can define.  The variable mark  *)
(* is a history variable: no action reads it.                              *)
(*                                                                         *)
(* The other parts of the repository have their own specifications over    *)
(* the same variables: SpecPriority and SpecTables (remove_comments with   *)
(* languages whose delimiters overlap or begin alike), SpecTwice           *)
(* (remove_comments called again on its own result), SpecStrip             *)
(* (strip_comments of src/src/decommenter.rs), SpecLookup (the registry    *)
(* LanguageDB of decommenter/mod.rs: it is built, then lookups and calls   *)
(* of remove_comments interleave), SpecJoin (run_join: find_files of       *)
(* walker.rs, then process_files of processor.rs) and SpecJoinLive (the    *)
(* same under fair scheduling).  A specification leaves the variables of   *)
(* the others at their idle values.                                        *)
(*                                                                         *)
(* A byte is a one-character string, a byte string (a delimiter, the       *)
(* input, the output) is a sequence of bytes, and an Option<&str> is a     *)
(* sequence of zero (None) or one (Some) delimiter.  A path is the         *)
(* sequence of its components, and in the bytes of a header line a         *)
(* component stands as one element.                                        *)
(***************************************************************************)
EXTENDS Integers, Sequences, FiniteSets, TLC

VARIABLES
    contents,           \* the input bytes (never modified)
    lang,               \* the Language handle passed in
    output,             \* Vec<u8> built so far
    cursor,             \* number of input bytes consumed
    comment_stack,      \* END delimiters of the open block comments
    string_delimiter,   \* Some(END delimiter) while inside a string
    pc,                 \* "scan" inside the loop, "done" after `output` is returned
    mark,               \* history variable: cursor and output when Code state was last left
    first,              \* Some(input of the first call) during a second call on its result
    args,               \* JoinArgs: input_folder, output_file, clear_file
    disk,               \* the file system: per entry of the folder, its kind and bytes
    visited,            \* the entries the walker threads have handled
    chan,               \* the mpsc channel: the paths sent and not yet received
    jpc,                \* position of run_join
    senders,            \* the Sender handles of the channel that are alive
    receiver,           \* the Receiver: "none" before mpsc::channel(), "live", "dropped"
    db,                 \* Some(LanguageDB) once LanguageDB::new has returned
    found               \* Some(extension asked for, Option returned) of the last lookup

\* The variables of one call of remove_comments (or strip_comments).
scan == <<contents, lang, output, cursor, comment_stack, string_delimiter, pc, mark>>

\* The variables outside that call.
outer == <<first, args, disk, visited, chan, jpc, senders, receiver, db, found>>

\* The two ends of the channel.
ends == <<senders, receiver>>

\* The language registry and what was last asked of it.
registry == <<db, found>>

vars == <<contents, lang, output, cursor, comment_stack, string_delimiter, pc, mark,
          first, args, disk, visited, chan, jpc, senders, receiver, db, found>>

-----------------------------------------------------------------------------
(* Bytes *)

NL    == "\n"
SP    == " "
TAB   == "\t"
BSL   == "\\"
QUOTE == "\""

\* The bytes the enumerated inputs are built from.
Alphabet == {"/", "*", QUOTE, BSL, NL, SP, "x"}

\* Length of the longest enumerated input.
MaxLen == 5

-----------------------------------------------------------------------------
(* Languages: the compiled Language struct of decommenter/mod.rs *)

Language(line, multi, quotes, nested) ==
    [line_comments |-> line, multi_line_comments |-> multi,
     quotes |-> quotes, allows_nested |-> nested]

\* The "rs" entry of languages.toml as the tests of logic.rs use it.
Rust == Language(<< <<"/", "/">> >>,
                 << << <<"/", "*">>, <<"*", "/">> >> >>,
                 << << <<QUOTE>>, <<QUOTE>> >> >>,
                 TRUE)

\* The "c" entry: the same delimiters, block comments do not nest.
C == Language(<< <<"/", "/">> >>,
              << << <<"/", "*">>, <<"*", "/">> >> >>,
              << << <<QUOTE>>, <<QUOTE>> >> >>,
              FALSE)

Languages == {Rust, C}

\* A "cpp" entry: the delimiters of C and raw string literals `R"(` .. `)"`.
Cpp == Language(<< <<"/", "/">> >>,
                << << <<"/", "*">>, <<"*", "/">> >> >>,
                << << <<QUOTE>>, <<QUOTE>> >>, << <<"R", QUOTE, "(">>, <<")", QUOTE>> >> >>,
                FALSE)

\* A table entry for a fixed-form language in which `*` in column one starts a
\* comment line, written as the marker `\n*`: LanguageDB::new copies the
\* strings of the table into the Language without looking at them.
ColumnOne == Language(<< <<NL, "*">> >>,
                      <<>>,
                      << << <<QUOTE>>, <<QUOTE>> >> >>,
                      FALSE)

\* Table entries whose delimiters of different categories match at the same
\* position.  TieA: `//` is a line comment, `/` opens a block comment that
\* `*` closes, `/x` and `"` open strings.
TieA == Language(<< <<"/", "/">> >>,
                 << << <<"/">>, <<"*">> >> >>,
                 << << <<"/", "x">>, <<QUOTE>> >>, << <<QUOTE>>, <<QUOTE>> >> >>,
                 TRUE)

\* TieB: `/` is a line comment, `/*` and `*/` open block comments, `/` and
\* `*` open strings.
TieB == Language(<< <<"/">> >>,
                 << << <<"/", "*">>, <<"*", "/">> >>, << <<"*", "/">>, <<"x">> >> >>,
                 << << <<"/">>, <<"/">> >>, << <<"*">>, <<"*">> >> >>,
                 FALSE)

TieLanguages == {TieA, TieB}

\* Two block-comment pairs that nest in each other: `/* */` and `/x x/`.
TwoPairs == Language(<< <<"/", "/">> >>,
                     << << <<"/", "*">>, <<"*", "/">> >>, << <<"/", "x">>, <<"x", "/">> >> >>,
                     << << <<QUOTE>>, <<QUOTE>> >> >>,
                     TRUE)

\* Delimiters of one category that begin alike, the shorter listed first:
\* `/*` before `/**`, `"` before `""`.
Prefixed == Language(<< <<"/", "/">> >>,
                     << << <<"/", "*">>, <<"*", "/">> >>, << <<"/", "*", "*">>, <<"x">> >> >>,
                     << << <<QUOTE>>, <<QUOTE>> >>, << <<QUOTE, QUOTE>>, <<"x">> >> >>,
                     TRUE)

TableLanguages == {TwoPairs, Prefixed}

\* A syntax with `--` line comments and `/* */` block comments, as SQL has.
Dashes == Language(<< <<"-", "-">> >>,
                   << << <<"/", "*">>, <<"*", "/">> >> >>,
                   << << <<QUOTE>>, <<QUOTE>> >> >>,
                   FALSE)

TwiceLanguages == {Rust, C, Dashes}

\* Every delimiter string of l is non-empty.
NonEmptyDelimiters(l) ==
    /\ \A i \in 1..Len(l.line_comments) : l.line_comments[i] # <<>>
    /\ \A i \in 1..Len(l.multi_line_comments) :
          l.multi_line_comments[i][1] # <<>> /\ l.multi_line_comments[i][2] # <<>>
    /\ \A i \in 1..Len(l.quotes) : l.quotes[i][1] # <<>> /\ l.quotes[i][2] # <<>>

-----------------------------------------------------------------------------
(* Inputs *)

\* Every byte string over Alphabet of length at most MaxLen.
BoundedInputs == UNION {[1..n -> Alphabet] : n \in 0..MaxLen}

\* `/* A /* B */ C */`
NestedSample ==
    <<"/", "*", SP, "A", SP, "/", "*", SP, "B", SP, "*", "/", SP, "C", SP, "*", "/">>

\* `/*/**/*/x`: code after the outermost end delimiter
NestedThenCode == <<"/", "*", "/", "*", "*", "/", "*", "/", "x">>

\* `"http://x"; // c`
UrlSample ==
    <<QUOTE, "h", "t", "t", "p", ":", "/", "/", "x", QUOTE, ";", SP, "/", "/", SP, "c">>

\* `code   // comment\n`
TrimSample ==
    <<"c", "o", "d", "e", SP, SP, SP, "/", "/", SP, "c", "o", "m", "m", "e", "n", "t", NL>>

\* `x\n \t // c\ny`: a line holding only indentation and a line comment
IndentSample == <<"x", NL, SP, TAB, SP, "/", "/", SP, "c", NL, "y">>

\* `a/* b\n\nc */d`: a block comment spanning two newlines
BlockLinesSample == <<"a", "/", "*", SP, "b", NL, NL, "c", SP, "*", "/", "d">>

\* `    /* a\n       b */\n    return 0; /* t */\n}`
CBlockSample ==
    <<SP, SP, SP, SP, "/", "*", SP, "a", NL,
      SP, SP, SP, SP, SP, SP, SP, "b", SP, "*", "/", NL,
      SP, SP, SP, SP, "r", "e", "t", "u", "r", "n", SP, "0", ";", SP,
      "/", "*", SP, "t", SP, "*", "/", NL, "}">>

\* `/* never closes`
UnclosedSample ==
    <<"/", "*", SP, "n", "e", "v", "e", "r", SP, "c", "l", "o", "s", "e", "s">>

\* `f {\n  /* s\n  e\n`: an unclosed block comment after code, with newlines in it
UnclosedLinesSample ==
    <<"f", SP, "{", NL, SP, SP, "/", "*", SP, "s", NL, SP, SP, "e", NL>>

\* `a\n// c\nb`: a line that holds only a line comment
CommentLineSample == <<"a", NL, "/", "/", SP, "c", NL, "b">>

\* `a "b // c /* d\n`: a string that is never closed
UnclosedStringSample ==
    <<"a", SP, QUOTE, "b", SP, "/", "/", SP, "c", SP, "/", "*", SP, "d", NL>>

\* `"a\"//b" x`: an escaped quote inside a string, then a comment marker
EscapeSample == <<QUOTE, "a", BSL, QUOTE, "/", "/", "b", QUOTE, SP, "x">>

\* `/* " // \*/ x`: a quote start, a line marker and a backslash in a comment
QuoteInCommentSample ==
    <<"/", "*", SP, QUOTE, SP, "/", "/", SP, BSL, "*", "/", SP, "x">>

\* `/* /x */ x/ */ y`: the end delimiter of the outer pair inside the inner one
PairsSample ==
    <<"/", "*", SP, "/", "x", SP, "*", "/", SP, "x", "/", SP, "*", "/", SP, "y">>

\* `""/**b*/c`
PrefixSample == <<QUOTE, QUOTE, "/", "*", "*", "b", "*", "/", "c">>

\* `" " //c`
StringTrimSample == <<QUOTE, SP, QUOTE, SP, "/", "/", "c">>

Samples == {NestedSample, NestedThenCode, UrlSample, TrimSample, IndentSample,
            BlockLinesSample, CBlockSample, UnclosedSample, UnclosedLinesSample,
            CommentLineSample, UnclosedStringSample, EscapeSample,
            QuoteInCommentSample, PairsSample, PrefixSample, StringTrimSample}

Inputs == BoundedInputs \cup Samples

\* Inputs of the runs that feed the output back in.
TwiceAlphabet == {"-", "/", "*", QUOTE, NL, SP}

\* `a-/**/-b`
PasteSample == <<"a", "-", "/", "*", "*", "/", "-", "b">>

TwiceInputs == UNION {[1..n -> TwiceAlphabet] : n \in 0..MaxLen} \cup {PasteSample, EscapeSample}

-----------------------------------------------------------------------------
(* Helpers of the loop body *)

\* &contents[cursor..]
Remaining == SubSeq(contents, cursor + 1, Len(contents))

\* <[u8]>::starts_with
StartsWith(s, prefix) ==
    /\ Len(prefix) <= Len(s)
    /\ SubSeq(s, 1, Len(prefix)) = prefix

\* .iter().find(|d| remaining.starts_with(d)) over the line-comment markers:
\* the index of the first marker that matches, 0 when none does.
FindLine(rem) ==
    LET hits == {i \in 1..Len(lang.line_comments) : StartsWith(rem, lang.line_comments[i])}
    IN  IF hits = {} THEN 0 ELSE CHOOSE i \in hits : \A j \in hits : i <= j

\* FindPair that takes the last pair of the table that matches.
FindPairLast(pairs, rem) ==
    LET hits == {i \in 1..Len(pairs) : StartsWith(rem, pairs[i][1])}
    IN  IF hits = {} THEN 0 ELSE CHOOSE i \in hits : \A j \in hits : j <= i

\* .iter().find(|(s, _)| remaining.starts_with(s)) over a (start, end) table.
FindPair(pairs, rem) ==
    LET hits == {i \in 1..Len(pairs) : StartsWith(rem, pairs[i][1])}
    IN  IF hits = {} THEN 0 ELSE CHOOSE i \in hits : \A j \in hits : i <= j

\* find_subsequence: the 0-based position of the first window equal to needle,
\* -1 for None.
find_subsequence(haystack, needle) ==
    LET hits == {i \in 0..(Len(haystack) - Len(needle)) :
                    SubSeq(haystack, i + 1, i + Len(needle)) = needle}
    IN  IF hits = {} THEN -1 ELSE CHOOSE i \in hits : \A j \in hits : i <= j

\* TrimTrailing with the tab test left out.
RECURSIVE TrimTrailingSpaces(_)
TrimTrailingSpaces(out) ==
    IF Len(out) > 0 /\ out[Len(out)] = SP
    THEN TrimTrailingSpaces(SubSeq(out, 1, Len(out) - 1))
    ELSE out

\* TrimTrailing that takes newline bytes for whitespace too.
RECURSIVE TrimTrailingNewlines(_)
TrimTrailingNewlines(out) ==
    IF Len(out) > 0 /\ (out[Len(out)] = SP \/ out[Len(out)] = TAB \/ out[Len(out)] = NL)
    THEN TrimTrailingNewlines(SubSeq(out, 1, Len(out) - 1))
    ELSE out

\* The `while last_idx > 0` loop and output.truncate(last_idx).
RECURSIVE TrimTrailing(_)
TrimTrailing(out) ==
    IF Len(out) > 0 /\ (out[Len(out)] = SP \/ out[Len(out)] = TAB)
    THEN TrimTrailing(SubSeq(out, 1, Len(out) - 1))
    ELSE out

InLoop == pc = "scan" /\ cursor < Len(contents)
InString == string_delimiter # <<>>
InComment == string_delimiter = <<>> /\ comment_stack # <<>>
InCode == string_delimiter = <<>> /\ comment_stack = <<>>

-----------------------------------------------------------------------------
(* Init: the state after the four `let mut` of remove_comments *)

\* No run_join and no second call is in progress.
NoArgs == [input_folder |-> <<>>, output_file |-> <<>>, clear_file |-> FALSE,
           patterns |-> <<>>, exclude |-> <<>>, hidden |-> FALSE]

OuterIdle ==
    /\ first = <<>>
    /\ args = NoArgs
    /\ disk = <<>>
    /\ visited = {}
    /\ chan = <<>>
    /\ jpc = "idle"
    /\ senders = {}
    /\ receiver = "none"
    /\ db = <<>>
    /\ found = <<>>

InitWith(languages) ==
    /\ contents \in Inputs
    /\ lang \in languages
    /\ output = <<>>
    /\ cursor = 0
    /\ comment_stack = <<>>
    /\ string_delimiter = <<>>
    /\ pc = "scan"
    /\ mark = [at |-> 0, out |-> <<>>]
    /\ OuterIdle

\* A call with a language of the table the tests use.
Init == InitWith(Languages)

\* A call with any language a table can define.
InitAnySyntax == InitWith(Languages \cup {ColumnOne})

\* A call with a language whose delimiters overlap.
InitPriority == InitWith(TieLanguages)

InitTables == InitWith(TableLanguages)

InitTwice ==
    /\ contents \in TwiceInputs
    /\ lang \in TwiceLanguages
    /\ output = <<>> /\ cursor = 0
    /\ comment_stack = <<>> /\ string_delimiter = <<>>
    /\ pc = "scan"
    /\ mark = [at |-> 0, out |-> <<>>]
    /\ OuterIdle

-----------------------------------------------------------------------------
(* STATE 1: inside a string *)

\* StringEnd that forgets to copy the end delimiter.
StringEndSilent ==
    /\ InLoop /\ InString
    /\ StartsWith(Remaining, string_delimiter[1])
    /\ cursor' = cursor + Len(string_delimiter[1])
    /\ string_delimiter' = <<>>
    /\ UNCHANGED <<contents, lang, output, comment_stack, pc, mark>>
    /\ UNCHANGED outer

StringEnd ==
    /\ InLoop /\ InString
    /\ StartsWith(Remaining, string_delimiter[1])
    /\ output' = output \o string_delimiter[1]
    /\ cursor' = cursor + Len(string_delimiter[1])
    /\ string_delimiter' = <<>>
    /\ UNCHANGED <<contents, lang, comment_stack, pc, mark>>
    /\ UNCHANGED outer

\* StringEscape without the test that a byte follows the backslash.
StringEscapeUnguarded ==
    /\ InLoop /\ InString
    /\ ~StartsWith(Remaining, string_delimiter[1])
    /\ StartsWith(Remaining, <<BSL>>)
    /\ output' = output \o (IF Len(Remaining) > 1 THEN SubSeq(Remaining, 1, 2)
                             ELSE Remaining)
    /\ cursor' = cursor + 2
    /\ UNCHANGED <<contents, lang, comment_stack, string_delimiter, pc, mark>>
    /\ UNCHANGED outer

\* StringEscape that treats the backslash as a normal byte of the string.
StringEscapeAsChar ==
    /\ InLoop /\ InString
    /\ ~StartsWith(Remaining, string_delimiter[1])
    /\ StartsWith(Remaining, <<BSL>>) /\ Len(Remaining) > 1
    /\ output' = Append(output, Remaining[1])
    /\ cursor' = cursor + 1
    /\ UNCHANGED <<contents, lang, comment_stack, string_delimiter, pc, mark>>
    /\ UNCHANGED outer

\* StringEscape that copies the escaped byte without its backslash.
StringEscapeUnescapes ==
    /\ InLoop /\ InString
    /\ ~StartsWith(Remaining, string_delimiter[1])
    /\ StartsWith(Remaining, <<BSL>>) /\ Len(Remaining) > 1
    /\ output' = Append(output, Remaining[2])
    /\ cursor' = cursor + 2
    /\ UNCHANGED <<contents, lang, comment_stack, string_delimiter, pc, mark>>
    /\ UNCHANGED outer

StringEscape ==
    /\ InLoop /\ InString
    /\ ~StartsWith(Remaining, string_delimiter[1])
    /\ StartsWith(Remaining, <<BSL>>) /\ Len(Remaining) > 1
    /\ output' = output \o SubSeq(Remaining, 1, 2)
    /\ cursor' = cursor + 2
    /\ UNCHANGED <<contents, lang, comment_stack, string_delimiter, pc, mark>>
    /\ UNCHANGED outer

StringChar ==
    /\ InLoop /\ InString
    /\ ~StartsWith(Remaining, string_delimiter[1])
    /\ ~(StartsWith(Remaining, <<BSL>>) /\ Len(Remaining) > 1)
    /\ output' = Append(output, Remaining[1])
    /\ cursor' = cursor + 1
    /\ UNCHANGED <<contents, lang, comment_stack, string_delimiter, pc, mark>>
    /\ UNCHANGED outer

-----------------------------------------------------------------------------
(* STATE 2: inside a multi-line comment *)

\* TopEnd that reads the bottom of the stack, the outermost open level.
TopEndOutermost == Head(comment_stack)

TopEnd == comment_stack[Len(comment_stack)]

\* CommentEnd that copies the end delimiter to the output.
CommentEndEmits ==
    /\ InLoop /\ InComment
    /\ StartsWith(Remaining, TopEnd)
    /\ output' = output \o TopEnd
    /\ cursor' = cursor + Len(TopEnd)
    /\ comment_stack' = SubSeq(comment_stack, 1, Len(comment_stack) - 1)
    /\ UNCHANGED <<contents, lang, string_delimiter, pc, mark>>
    /\ UNCHANGED outer

\* CommentEnd that closes every open level at once.
CommentEndClosesAll ==
    /\ InLoop /\ InComment
    /\ StartsWith(Remaining, TopEnd)
    /\ cursor' = cursor + Len(TopEnd)
    /\ comment_stack' = <<>>
    /\ UNCHANGED <<contents, lang, output, string_delimiter, pc, mark>>
    /\ UNCHANGED outer

\* CommentEnd that leaves one space where the comment was.
CommentEndLeavesSpace ==
    /\ InLoop /\ InComment
    /\ StartsWith(Remaining, TopEnd)
    /\ cursor' = cursor + Len(TopEnd)
    /\ comment_stack' = SubSeq(comment_stack, 1, Len(comment_stack) - 1)
    /\ output' = Append(output, SP)
    /\ UNCHANGED <<contents, lang, string_delimiter, pc, mark>>
    /\ UNCHANGED outer

CommentEnd ==
    /\ InLoop /\ InComment
    /\ StartsWith(Remaining, TopEnd)
    /\ cursor' = cursor + Len(TopEnd)
    /\ comment_stack' = SubSeq(comment_stack, 1, Len(comment_stack) - 1)
    /\ UNCHANGED <<contents, lang, output, string_delimiter, pc, mark>>
    /\ UNCHANGED outer

\* NestedMatch that never looks for a start (allows_nested read as false).
NestedMatchIgnored == FindPair(<<>>, Remaining)

\* NestedMatch without the allows_nested test.
NestedMatchAlways == FindPair(lang.multi_line_comments, Remaining)

NestedMatch == IF lang.allows_nested THEN FindPair(lang.multi_line_comments, Remaining) ELSE 0

CommentNested ==
    /\ InLoop /\ InComment
    /\ ~StartsWith(Remaining, TopEnd)
    /\ NestedMatch # 0
    /\ comment_stack' = Append(comment_stack, lang.multi_line_comments[NestedMatch][2])
    /\ cursor' = cursor + Len(lang.multi_line_comments[NestedMatch][1])
    /\ UNCHANGED <<contents, lang, output, string_delimiter, pc, mark>>
    /\ UNCHANGED outer

\* CommentChar that discards the newline too.
CommentCharSilent ==
    /\ InLoop /\ InComment
    /\ ~StartsWith(Remaining, TopEnd)
    /\ NestedMatch = 0
    /\ cursor' = cursor + 1
    /\ UNCHANGED <<contents, lang, output, comment_stack, string_delimiter, pc, mark>>
    /\ UNCHANGED outer

\* CommentChar that takes a backslash and the byte after it together.
CommentCharEscapes ==
    /\ InLoop /\ InComment
    /\ ~StartsWith(Remaining, TopEnd)
    /\ NestedMatch = 0
    /\ output' = IF Remaining[1] = NL THEN Append(output, NL) ELSE output
    /\ cursor' = IF Remaining[1] = BSL /\ Len(Remaining) > 1
                 THEN cursor + Len(<<BSL, Remaining[2]>>)
                 ELSE cursor + 1
    /\ UNCHANGED <<contents, lang, comment_stack, string_delimiter, pc, mark>>
    /\ UNCHANGED outer

CommentChar ==
    /\ InLoop /\ InComment
    /\ ~StartsWith(Remaining, TopEnd)
    /\ NestedMatch = 0
    /\ output' = IF Remaining[1] = NL THEN Append(output, NL) ELSE output
    /\ cursor' = cursor + 1
    /\ UNCHANGED <<contents, lang, comment_stack, string_delimiter, pc, mark>>
    /\ UNCHANGED outer

-----------------------------------------------------------------------------
(* STATE 3: in normal code *)

\* LineComment that skips past the newline instead of stopping at it.
LineCommentEatsNewline ==
    /\ InLoop /\ InCode
    /\ FindLine(Remaining) # 0
    /\ output' = TrimTrailing(output)
    /\ cursor' = LET eol_pos == find_subsequence(Remaining, <<NL>>)
                 IN  IF eol_pos # -1 THEN cursor + eol_pos + 1 ELSE Len(contents)
    /\ UNCHANGED <<contents, lang, comment_stack, string_delimiter, pc, mark>>
    /\ UNCHANGED outer

LineComment ==
    /\ InLoop /\ InCode
    /\ FindLine(Remaining) # 0
    /\ output' = TrimTrailing(output)
    /\ cursor' = LET eol_pos == find_subsequence(Remaining, <<NL>>)
                 IN  IF eol_pos # -1 THEN cursor + eol_pos ELSE Len(contents)
    /\ UNCHANGED <<contents, lang, comment_stack, string_delimiter, pc, mark>>
    /\ UNCHANGED outer

\* BlockStart tried before the line-comment markers.
BlockStartFirst ==
    /\ InLoop /\ InCode
    /\ FindPair(lang.multi_line_comments, Remaining) # 0
    /\ LET pair == lang.multi_line_comments[FindPair(lang.multi_line_comments, Remaining)]
       IN  /\ comment_stack' = Append(comment_stack, pair[2])
           /\ cursor' = cursor + Len(pair[1])
    /\ mark' = [at |-> cursor, out |-> output]
    /\ UNCHANGED <<contents, lang, output, string_delimiter, pc>>
    /\ UNCHANGED outer

\* BlockStart that copies the start delimiter to the output.
BlockStartEmits ==
    /\ InLoop /\ InCode
    /\ FindLine(Remaining) = 0
    /\ FindPair(lang.multi_line_comments, Remaining) # 0
    /\ LET pair == lang.multi_line_comments[FindPair(lang.multi_line_comments, Remaining)]
       IN  /\ comment_stack' = Append(comment_stack, pair[2])
           /\ output' = output \o pair[1]
           /\ cursor' = cursor + Len(pair[1])
    /\ mark' = [at |-> cursor, out |-> output]
    /\ UNCHANGED <<contents, lang, string_delimiter, pc>>
    /\ UNCHANGED outer

\* BlockStart that trims the output as LineComment does.
BlockStartTrims ==
    /\ InLoop /\ InCode
    /\ FindLine(Remaining) = 0
    /\ FindPair(lang.multi_line_comments, Remaining) # 0
    /\ LET pair == lang.multi_line_comments[FindPair(lang.multi_line_comments, Remaining)]
       IN  /\ comment_stack' = Append(comment_stack, pair[2])
           /\ cursor' = cursor + Len(pair[1])
    /\ output' = TrimTrailing(output)
    /\ mark' = [at |-> cursor, out |-> output]
    /\ UNCHANGED <<contents, lang, string_delimiter, pc>>
    /\ UNCHANGED outer

BlockStart ==
    /\ InLoop /\ InCode
    /\ FindLine(Remaining) = 0
    /\ FindPair(lang.multi_line_comments, Remaining) # 0
    /\ LET pair == lang.multi_line_comments[FindPair(lang.multi_line_comments, Remaining)]
       IN  /\ comment_stack' = Append(comment_stack, pair[2])
           /\ cursor' = cursor + Len(pair[1])
    /\ mark' = [at |-> cursor, out |-> output]
    /\ UNCHANGED <<contents, lang, output, string_delimiter, pc>>
    /\ UNCHANGED outer

\* QuoteStart that is tried before the comment stack is looked at.
QuoteStartInComment ==
    /\ InLoop /\ string_delimiter = <<>>
    /\ FindLine(Remaining) = 0
    /\ FindPair(lang.multi_line_comments, Remaining) = 0
    /\ FindPair(lang.quotes, Remaining) # 0
    /\ LET pair == lang.quotes[FindPair(lang.quotes, Remaining)]
       IN  /\ string_delimiter' = <<pair[2]>>
           /\ output' = output \o pair[1]
           /\ cursor' = cursor + Len(pair[1])
    /\ mark' = [at |-> cursor, out |-> output]
    /\ UNCHANGED <<contents, lang, comment_stack, pc>>
    /\ UNCHANGED outer

\* QuoteStart that forgets to copy the start delimiter.
QuoteStartSilent ==
    /\ InLoop /\ InCode
    /\ FindLine(Remaining) = 0
    /\ FindPair(lang.multi_line_comments, Remaining) = 0
    /\ FindPair(lang.quotes, Remaining) # 0
    /\ LET pair == lang.quotes[FindPair(lang.quotes, Remaining)]
       IN  /\ string_delimiter' = <<pair[2]>>
           /\ cursor' = cursor + Len(pair[1])
    /\ mark' = [at |-> cursor, out |-> output]
    /\ UNCHANGED <<contents, lang, output, comment_stack, pc>>
    /\ UNCHANGED outer

QuoteStart ==
    /\ InLoop /\ InCode
    /\ FindLine(Remaining) = 0
    /\ FindPair(lang.multi_line_comments, Remaining) = 0
    /\ FindPair(lang.quotes, Remaining) # 0
    /\ LET pair == lang.quotes[FindPair(lang.quotes, Remaining)]
       IN  /\ string_delimiter' = <<pair[2]>>
           /\ output' = output \o pair[1]
           /\ cursor' = cursor + Len(pair[1])
    /\ mark' = [at |-> cursor, out |-> output]
    /\ UNCHANGED <<contents, lang, comment_stack, pc>>
    /\ UNCHANGED outer

CodeChar ==
    /\ InLoop /\ InCode
    /\ FindLine(Remaining) = 0
    /\ FindPair(lang.multi_line_comments, Remaining) = 0
    /\ FindPair(lang.quotes, Remaining) = 0
    /\ output' = Append(output, Remaining[1])
    /\ cursor' = cursor + 1
    /\ UNCHANGED <<contents, lang, comment_stack, string_delimiter, pc, mark>>
    /\ UNCHANGED outer

-----------------------------------------------------------------------------
(* Loop exit: `output` is returned *)

\* Return that ends the output with a newline.
ReturnAddsNewline ==
    /\ pc = "scan"
    /\ ~(cursor < Len(contents))
    /\ pc' = "done"
    /\ output' = Append(output, NL)
    /\ UNCHANGED <<contents, lang, cursor, comment_stack, string_delimiter, mark>>
    /\ UNCHANGED outer

Return ==
    /\ pc = "scan"
    /\ ~(cursor < Len(contents))
    /\ pc' = "done"
    /\ UNCHANGED <<contents, lang, output, cursor, comment_stack, string_delimiter, mark>>
    /\ UNCHANGED outer

Next ==
    \/ StringEnd
    \/ StringEscape
    \/ StringChar
    \/ CommentEnd
    \/ CommentNested
    \/ CommentChar
    \/ LineComment
    \/ BlockStart
    \/ QuoteStart
    \/ CodeChar
    \/ Return

Spec == Init /\ [][Next]_vars

SpecAnySyntax == InitAnySyntax /\ [][Next]_vars

SpecPriority == InitPriority /\ [][Next]_vars

SpecTables == InitTables /\ [][Next]_vars

\* remove_comments is called again, on the bytes it has just returned.
Rerun ==
    /\ pc = "done" /\ jpc = "idle" /\ first = <<>>
    /\ first' = <<contents>>
    /\ contents' = output
    /\ output' = <<>> /\ cursor' = 0
    /\ comment_stack' = <<>> /\ string_delimiter' = <<>>
    /\ pc' = "scan"
    /\ mark' = [at |-> 0, out |-> <<>>]
    /\ UNCHANGED <<lang, args, disk, visited, chan, jpc, ends, registry>>

NextTwice == Next \/ Rerun

SpecTwice == InitTwice /\ [][NextTwice]_vars

-----------------------------------------------------------------------------
(* strip_comments of decommenter.rs: the same locals, one action per       *)
(* iteration of its loop                                                   *)

\* The nested comment of tests::handles_nested_comments_in_rust, then code.
StripNestedSample ==
    <<NL, "/", "*", NL, SP, "o", "u", "t", "e", "r", NL,
      SP, "/", "*", SP, "i", "n", "n", "e", "r", SP, "*", "/", NL,
      SP, "s", "t", "i", "l", "l", NL, "*", "/", NL,
      "f", "n", SP, "t", "e", "s", "t", "(", ")", SP, "{", "}", NL>>

StripInputs == BoundedInputs \cup {StripNestedSample, EscapeSample}

InitStrip ==
    /\ contents \in StripInputs
    /\ lang \in Languages
    /\ output = <<>> /\ cursor = 0
    /\ comment_stack = <<>> /\ string_delimiter = <<>>
    /\ pc = "scan"
    /\ mark = [at |-> 0, out |-> <<>>]
    /\ OuterIdle

\* all_delims: the line markers, then the block starts, then the quote starts.
AllDelims ==
    lang.line_comments
      \o [i \in 1..Len(lang.multi_line_comments) |-> lang.multi_line_comments[i][1]]
      \o [i \in 1..Len(lang.quotes) |-> lang.quotes[i][1]]

\* next_delimiter_pos: the least position at which a delimiter is found in
\* the remaining bytes, -1 for None.
NextDelimiterPos ==
    LET hits == {find_subsequence(Remaining, AllDelims[i]) : i \in 1..Len(AllDelims)} \ {-1}
    IN  IF hits = {} THEN -1 ELSE CHOOSE p \in hits : \A q \in hits : p <= q

\* remaining_at_delim
RemainingAtDelim == SubSeq(contents, cursor + NextDelimiterPos + 1, Len(contents))

\* &remaining[..pos], the code before the delimiter
CodeBefore == SubSeq(Remaining, 1, NextDelimiterPos)

\* The in-string branch is the one of remove_comments.
StripInString == StringEnd \/ StringEscape \/ StringChar

StripCommentEnd ==
    /\ InLoop /\ InComment
    /\ StartsWith(Remaining, TopEnd)
    /\ cursor' = cursor + Len(TopEnd)
    /\ comment_stack' = SubSeq(comment_stack, 1, Len(comment_stack) - 1)
    /\ UNCHANGED <<contents, lang, output, string_delimiter, pc, mark>>
    /\ UNCHANGED outer

StripCommentChar ==
    /\ InLoop /\ InComment
    /\ ~StartsWith(Remaining, TopEnd)
    /\ cursor' = cursor + 1
    /\ UNCHANGED <<contents, lang, output, comment_stack, string_delimiter, pc, mark>>
    /\ UNCHANGED outer

StripLineComment ==
    /\ InLoop /\ InCode
    /\ NextDelimiterPos # -1
    /\ FindLine(RemainingAtDelim) # 0
    /\ output' = output \o CodeBefore
    /\ cursor' = LET end_of_line == find_subsequence(RemainingAtDelim, <<NL>>)
                 IN  IF end_of_line # -1
                     THEN cursor + NextDelimiterPos + end_of_line
                     ELSE Len(contents)
    /\ UNCHANGED <<contents, lang, comment_stack, string_delimiter, pc, mark>>
    /\ UNCHANGED outer

StripBlockStart ==
    /\ InLoop /\ InCode
    /\ NextDelimiterPos # -1
    /\ FindLine(RemainingAtDelim) = 0
    /\ FindPair(lang.multi_line_comments, RemainingAtDelim) # 0
    /\ output' = output \o CodeBefore
    /\ LET pair == lang.multi_line_comments[FindPair(lang.multi_line_comments,
                                                     RemainingAtDelim)]
       IN  /\ comment_stack' = IF comment_stack = <<>> \/ lang.allows_nested
                               THEN Append(comment_stack, pair[2])
                               ELSE comment_stack
           /\ cursor' = cursor + NextDelimiterPos + Len(pair[1])
    /\ UNCHANGED <<contents, lang, string_delimiter, pc, mark>>
    /\ UNCHANGED outer

StripQuoteStart ==
    /\ InLoop /\ InCode
    /\ NextDelimiterPos # -1
    /\ FindLine(RemainingAtDelim) = 0
    /\ FindPair(lang.multi_line_comments, RemainingAtDelim) = 0
    /\ FindPair(lang.quotes, RemainingAtDelim) # 0
    /\ LET pair == lang.quotes[FindPair(lang.quotes, RemainingAtDelim)]
       IN  /\ string_delimiter' = <<pair[2]>>
           /\ output' = output \o CodeBefore \o pair[1]
           /\ cursor' = cursor + NextDelimiterPos + Len(pair[1])
    /\ UNCHANGED <<contents, lang, comment_stack, pc, mark>>
    /\ UNCHANGED outer

\* No delimiter is left: the rest of the file is appended.
StripRest ==
    /\ InLoop /\ InCode
    /\ NextDelimiterPos = -1
    /\ output' = output \o Remaining
    /\ cursor' = Len(contents)
    /\ UNCHANGED <<contents, lang, comment_stack, string_delimiter, pc, mark>>
    /\ UNCHANGED outer

\* The loop condition is false: strip_comments returns output.
StripReturn == Return

NextStrip ==
    \/ StripInString
    \/ StripCommentEnd
    \/ StripCommentChar
    \/ StripLineComment
    \/ StripBlockStart
    \/ StripQuoteStart
    \/ StripRest
    \/ StripReturn

SpecStrip == InitStrip /\ [][NextStrip]_vars

-----------------------------------------------------------------------------
(* The registry: LanguageDB of decommenter/mod.rs *)

\* The names of the language table in the order the BTreeMap yields them.
TableNames == <<"C", "Cpp", "Rust">>

\* The definitions of the table: extensions and the compiled Language.  The
\* extension `h` is listed by two of them.
Table ==
    [C    |-> [extensions |-> <<"c", "h">>,   language |-> C],
     Cpp  |-> [extensions |-> <<"cpp", "h">>, language |-> Cpp],
     Rust |-> [extensions |-> <<"rs">>,       language |-> Rust]]

\* The extensions asked for.
Extensions == {"c", "h", "cpp", "rs", "xyz", "bin", "txt", ""}

\* ext_map.entry(ext).or_insert(name): the first name entered is kept.
RECURSIVE InsertAllKeepsFirst(_, _, _)
InsertAllKeepsFirst(map, exts, name) ==
    IF exts = <<>> THEN map
    ELSE InsertAllKeepsFirst([e \in DOMAIN map \cup {Head(exts)} |->
                                 IF e \in DOMAIN map THEN map[e] ELSE name],
                             Tail(exts), name)

\* ext_map.insert(ext, name) for every extension of one definition
RECURSIVE InsertAll(_, _, _)
InsertAll(map, exts, name) ==
    IF exts = <<>> THEN map
    ELSE InsertAll([e \in DOMAIN map \cup {Head(exts)} |->
                       IF e = Head(exts) THEN name ELSE map[e]],
                   Tail(exts), name)

\* The `for (name, def) in languages_file.languages` loop, over names[1..n]
RECURSIVE ExtMapUpTo(_)
ExtMapUpTo(n) ==
    IF n = 0 THEN [e \in {} |-> ""]
    ELSE InsertAll(ExtMapUpTo(n - 1), Table[TableNames[n]].extensions, TableNames[n])

ext_map == ExtMapUpTo(Len(TableNames))

languages == [name \in {TableNames[i] : i \in 1..Len(TableNames)} |-> Table[name].language]

\* find_by_extension with a default syntax for an extension it does not know.
find_by_extension_or_default(ext) ==
    IF ext \in DOMAIN ext_map THEN <<languages[ext_map[ext]]>> ELSE <<C>>

\* Option<Arc<Language>>: <<>> for None
find_by_extension(ext) ==
    IF ext \in DOMAIN ext_map /\ ext_map[ext] \in DOMAIN languages
    THEN <<languages[ext_map[ext]]>>
    ELSE <<>>

\* Ok(Self { languages, ext_map }), the value LanguageDB::new returns
LanguageDB == [languages |-> languages, ext_map |-> ext_map]

\* The inputs of the calls made with a handle of the registry.
LookupInputs == {NestedSample, EscapeSample, TrimSample}

\* No call has been made and no registry built.
InitLookup ==
    /\ contents = <<>> /\ lang = Rust
    /\ output = <<>> /\ cursor = 0
    /\ comment_stack = <<>> /\ string_delimiter = <<>>
    /\ pc = "idle"
    /\ mark = [at |-> 0, out |-> <<>>]
    /\ OuterIdle

\* LanguageDB::new
New ==
    /\ db = <<>>
    /\ db' = <<LanguageDB>>
    /\ UNCHANGED <<first, args, disk, visited, chan, jpc, ends, found>>
    /\ UNCHANGED scan

\* find_by_extension with ext_map.remove(ext) in place of ext_map.get(ext).
LookupTakes(ext) ==
    /\ db # <<>>
    /\ LET self == db[1]
       IN  /\ found' = <<[ext |-> ext,
                          result |-> IF ext \in DOMAIN self.ext_map
                                        /\ self.ext_map[ext] \in DOMAIN self.languages
                                     THEN <<self.languages[self.ext_map[ext]]>>
                                     ELSE <<>>]>>
           /\ db' = <<[self EXCEPT !.ext_map =
                          [e \in DOMAIN self.ext_map \ {ext} |-> self.ext_map[e]]]>>
    /\ UNCHANGED <<first, args, disk, visited, chan, jpc, ends>>
    /\ UNCHANGED scan

\* find_by_extension(&self, ext), by any thread and at any moment:
\* self.ext_map.get(ext).and_then(|name| self.languages.get(name)).cloned()
Lookup(ext) ==
    /\ db # <<>>
    /\ LET self == db[1]
       IN  found' = <<[ext |-> ext,
                       result |-> IF ext \in DOMAIN self.ext_map
                                     /\ self.ext_map[ext] \in DOMAIN self.languages
                                  THEN <<self.languages[self.ext_map[ext]]>>
                                  ELSE <<>>]>>
    /\ UNCHANGED <<first, args, disk, visited, chan, jpc, ends, db>>
    /\ UNCHANGED scan

\* remove_comments(contents, &lang) is entered with the handle the last
\* lookup returned: a new output, cursor 0, an empty stack, no delimiter.
Call(input) ==
    /\ pc \in {"idle", "done"}
    /\ found # <<>> /\ found[1].result # <<>>
    /\ contents' = input
    /\ lang' = found[1].result[1]
    /\ output' = <<>>
    /\ cursor' = 0
    /\ comment_stack' = <<>>
    /\ string_delimiter' = <<>>
    /\ pc' = "scan"
    /\ mark' = [at |-> 0, out |-> <<>>]
    /\ UNCHANGED outer

NextLookup ==
    \/ New
    \/ \E ext \in Extensions : Lookup(ext)
    \/ \E input \in LookupInputs : Call(input)
    \/ Next

\* A registry is built; lookups and calls of remove_comments follow in any
\* order, a lookup also while a call is under way.
SpecLookup == InitLookup /\ [][NextLookup]_vars

-----------------------------------------------------------------------------
(* run_join: lib.rs, walker.rs and processor.rs.  One directory is walked; *)
(* a path is the sequence of its components, which is what PathBuf's ==    *)
(* compares.                                                               *)

\* The byte 0
NUL == "NUL"

\* The entries of the directory.
Names == {"a.rs", "n.xyz", "b.bin", "sub", "lnk", "out.txt", ".h.rs"}

\* The bytes of the source file: `code   // comment\n`
RsBytes == TrimSample

\* What an earlier run left in the output file.
OldBytes == <<"o", "l", "d", NL>>

Absent == [kind |-> "none", bytes |-> <<>>]
RegularFile(bytes) == [kind |-> "file", bytes |-> bytes]

\* The directory before the run: a source file, a file of unknown extension,
\* a binary file, a sub-directory, a broken symbolic link, a hidden file.
Tree ==
    [n \in Names |->
        CASE n = "a.rs"  -> RegularFile(RsBytes)
          [] n = "n.xyz" -> RegularFile(<<"y", SP, "/", "/", "d", NL>>)
          [] n = "b.bin" -> RegularFile(<<"x", NUL, "/", "/", NL>>)
          [] n = "sub"   -> [kind |-> "dir", bytes |-> <<>>]
          [] n = "lnk"   -> [kind |-> "link", bytes |-> <<>>]
          [] n = ".h.rs" -> RegularFile(<<"h", NL>>)
          [] OTHER       -> Absent]

\* An empty directory
EmptyTree == [n \in Names |-> Absent]

\* The directories a run starts in, each without and with the output file
\* of an earlier run.
Trees ==
    {Tree, [Tree EXCEPT !["out.txt"] = RegularFile(OldBytes)],
     EmptyTree, [EmptyTree EXCEPT !["out.txt"] = RegularFile(OldBytes)]}

\* The two spellings of the walked directory.
InputFolders == {<<".">>, <<"/", "w">>}

\* Spellings of the output file, all of them in the walked directory.
OutputFiles == {<<"out.txt">>, <<".", "out.txt">>, <<"/", "w", "out.txt">>}

\* --patterns and --exclude: None, or Some(list of globs)
PatternChoices == {<<>>, << <<"*.rs", "*.xyz">> >>}
ExcludeChoices == {<<>>, << <<"a.*">> >>}

\* The entry a path leads to.
FileOf(path) == path[Len(path)]

\* The file that process_files writes
Out == FileOf(args.output_file)

\* path.is_dir()
is_dir(path) == disk[FileOf(path)].kind = "dir"

\* path.exists()
exists(path) == disk[FileOf(path)].kind \in {"file", "dir"}

\* The path the walker yields for an entry of the input folder.
EntryPath(name) == args.input_folder \o <<name>>

\* path.display(): the components with their separators
RECURSIVE Joined(_)
Joined(path) ==
    IF Len(path) <= 1 THEN path
    ELSE <<Head(path), "/">> \o Joined(Tail(path))

display(path) ==
    IF path # <<>> /\ Head(path) = "/" THEN <<"/">> \o Joined(Tail(path)) ELSE Joined(path)

\* writeln!(output_file, "// FILE: {}", path.display())
FileHeader(path) ==
    <<"/", "/", SP, "F", "I", "L", "E", ":", SP>> \o display(path) \o <<NL>>

InitJoin ==
    /\ contents = <<>> /\ lang = Rust
    /\ output = <<>> /\ cursor = 0
    /\ comment_stack = <<>> /\ string_delimiter = <<>>
    /\ pc = "idle"
    /\ mark = [at |-> 0, out |-> <<>>]
    /\ first = <<>>
    /\ args \in [input_folder : InputFolders, output_file : OutputFiles,
                 clear_file : BOOLEAN, patterns : PatternChoices,
                 exclude : ExcludeChoices, hidden : BOOLEAN]
    /\ disk \in Trees
    /\ visited = {}
    /\ chan = <<>>
    /\ jpc = "clear"
    /\ senders = {}
    /\ receiver = "none"
    /\ db = <<>>
    /\ found = <<>>

\* lib.rs: `if args.clear_file && args.output_file.exists()`
ClearFile ==
    /\ jpc = "clear"
    /\ disk' = IF args.clear_file /\ exists(args.output_file)
               THEN [disk EXCEPT ![Out] = Absent]
               ELSE disk
    /\ jpc' = "walk"
    /\ UNCHANGED <<first, args, visited, chan, ends>>
    /\ UNCHANGED <<scan, registry>>

\* A glob of the override set against the name of an entry.
GlobMatches(glob, name) ==
    CASE glob = "*"     -> TRUE
      [] glob = "*.rs"  -> name \in {"a.rs", ".h.rs"}
      [] glob = "*.xyz" -> name = "n.xyz"
      [] glob = "a.*"   -> name = "a.rs"
      [] glob = ".*"    -> name = ".h.rs"
      [] OTHER          -> FALSE

Include(globs) == [i \in 1..Len(globs) |-> [glob |-> globs[i], negated |-> FALSE]]
Exclude(globs) == [i \in 1..Len(globs) |-> [glob |-> globs[i], negated |-> TRUE]]

IncludeRules == IF args.patterns # <<>> THEN Include(args.patterns[1]) ELSE Include(<<"*">>)
ExcludeRules == IF args.exclude # <<>> THEN Exclude(args.exclude[1]) ELSE <<>>
HiddenRules == IF ~args.hidden THEN Exclude(<<".*">>) ELSE <<>>

\* The override set with the exclusions added before the inclusions.
OverridesExcludeFirst == ExcludeRules \o HiddenRules \o IncludeRules

\* override_builder: the include rules (or `*`), then `!pattern` for every
\* exclusion, then `!.*` unless hidden files are asked for.
Overrides == IncludeRules \o ExcludeRules \o HiddenRules

\* The last rule of the override set that matches decides; a file that no
\* rule matches is ignored because the set holds an include rule, a
\* directory that no rule matches is walked.
Passes(name) ==
    LET hits == {i \in 1..Len(Overrides) : GlobMatches(Overrides[i].glob, name)}
    IN  IF hits = {} THEN disk[name].kind = "dir"
        ELSE ~Overrides[CHOOSE i \in hits : \A j \in hits : j <= i].negated

\* The threads of the parallel walker.
Threads == {"t1", "t2"}

\* Every entry of the directory has been handled.
WalkFinished == \A name \in Names : disk[name].kind # "none" => name \in visited

\* StartWalk that lets go of the receiving end at once.
StartWalkDropsReceiver ==
    /\ jpc = "walk" /\ receiver = "none"
    /\ receiver' = "dropped"
    /\ senders' = {"tx"} \cup Threads
    /\ UNCHANGED <<first, args, disk, visited, chan, jpc>>
    /\ UNCHANGED <<scan, registry>>

\* mpsc::channel(), then walker.run calls its factory once per thread: each
\* call clones tx into the closure of that thread.
StartWalk ==
    /\ jpc = "walk" /\ receiver = "none"
    /\ receiver' = "live"
    /\ senders' = {"tx"} \cup Threads
    /\ UNCHANGED <<first, args, disk, visited, chan, jpc>>
    /\ UNCHANGED <<scan, registry>>

\* A walker thread is at work: its closure, and the clone in it, is alive.
Walking == jpc = "walk" /\ \E t \in Threads : t \in senders

\* An entry the override set rejects never reaches the closure of walker.run.
WalkIgnore(name) ==
    /\ Walking
    /\ name \notin visited /\ disk[name].kind # "none"
    /\ ~Passes(name)
    /\ visited' = visited \cup {name}
    /\ UNCHANGED <<first, args, disk, chan, jpc, ends>>
    /\ UNCHANGED <<scan, registry>>

\* The closure of walker.run on a directory or on the output file.
WalkSkip(name) ==
    /\ Walking
    /\ name \notin visited /\ disk[name].kind # "none"
    /\ Passes(name)
    /\ is_dir(EntryPath(name)) \/ EntryPath(name) = args.output_file
    /\ visited' = visited \cup {name}
    /\ UNCHANGED <<first, args, disk, chan, jpc, ends>>
    /\ UNCHANGED <<scan, registry>>

\* WalkSend in which two threads come upon the same entry and both send it.
WalkSendTwice(name) ==
    /\ Walking
    /\ name \notin visited /\ disk[name].kind # "none"
    /\ Passes(name)
    /\ ~(is_dir(EntryPath(name)) \/ EntryPath(name) = args.output_file)
    /\ visited' = visited \cup {name}
    /\ IF receiver = "live"
       THEN chan' = chan \o <<EntryPath(name), EntryPath(name)>> /\ jpc' = jpc
       ELSE chan' = chan /\ jpc' = "panicked"
    /\ UNCHANGED <<first, args, disk, ends>>
    /\ UNCHANGED <<scan, registry>>

\* The closure of walker.run on any other entry: tx.send(path) queues the
\* path while the receiver is alive and is an Err, on which expect() panics,
\* once it has been dropped.
WalkSend(name) ==
    /\ Walking
    /\ name \notin visited /\ disk[name].kind # "none"
    /\ Passes(name)
    /\ ~(is_dir(EntryPath(name)) \/ EntryPath(name) = args.output_file)
    /\ visited' = visited \cup {name}
    /\ IF receiver = "live"
       THEN chan' = Append(chan, EntryPath(name)) /\ jpc' = jpc
       ELSE chan' = chan /\ jpc' = "panicked"
    /\ UNCHANGED <<first, args, disk, ends>>
    /\ UNCHANGED <<scan, registry>>

\* A walker thread finds no work left and ends: its closure is dropped, and
\* the clone of tx with it.
ThreadExit(t) ==
    /\ jpc = "walk" /\ t \in Threads /\ t \in senders
    /\ WalkFinished
    /\ senders' = senders \ {t}
    /\ UNCHANGED <<first, args, disk, visited, chan, jpc, receiver>>
    /\ UNCHANGED <<scan, registry>>

\* CreateOutput in which the sender of the factory outlives find_files.
CreateOutputHoldsSender ==
    /\ jpc = "walk" /\ receiver # "none"
    /\ senders \cap Threads = {}
    /\ WalkFinished
    /\ disk' = [disk EXCEPT ![Out] = RegularFile(<<>>)]
    /\ jpc' = "recv"
    /\ UNCHANGED <<first, args, visited, chan, ends>>
    /\ UNCHANGED <<scan, registry>>

\* CreateOutput that creates the output file only when there is a path to write.
CreateOutputIfAny ==
    /\ jpc = "walk" /\ receiver # "none"
    /\ senders \cap Threads = {}
    /\ WalkFinished
    /\ senders' = {}
    /\ disk' = IF chan = <<>> THEN disk
               ELSE [disk EXCEPT ![Out] = RegularFile(<<>>)]
    /\ jpc' = "recv"
    /\ UNCHANGED <<first, args, visited, chan, receiver>>
    /\ UNCHANGED <<scan, registry>>

\* CreateOutput that opens an existing output file without truncating it.
CreateOutputKeeps ==
    /\ jpc = "walk" /\ receiver # "none"
    /\ senders \cap Threads = {}
    /\ WalkFinished
    /\ senders' = {}
    /\ disk' = IF disk[Out].kind = "file" THEN disk
               ELSE [disk EXCEPT ![Out] = RegularFile(<<>>)]
    /\ jpc' = "recv"
    /\ UNCHANGED <<first, args, visited, chan, receiver>>
    /\ UNCHANGED <<scan, registry>>

\* Every thread has ended: walker.run returns and drops the factory with the
\* tx it owns, find_files returns rx, and process_files creates or truncates
\* the output file.
CreateOutput ==
    /\ jpc = "walk" /\ receiver # "none"
    /\ senders \cap Threads = {}
    /\ WalkFinished
    /\ senders' = {}
    /\ disk' = [disk EXCEPT ![Out] = RegularFile(<<>>)]
    /\ jpc' = "recv"
    /\ UNCHANGED <<first, args, visited, chan, receiver>>
    /\ UNCHANGED <<scan, registry>>

\* The path that `for path in rx` yields next
Received == Head(chan)

\* fs::read(&path) is Ok(contents)
ReadOk == disk[FileOf(Received)].kind = "file"

ReadBytes == disk[FileOf(Received)].bytes

\* contents.contains(&0)
IsBinary(bytes) == \E i \in 1..Len(bytes) : bytes[i] = NUL

Receiving == jpc = "recv" /\ chan # <<>>

\* RecvBinary that writes the header before it looks at the contents.
RecvBinaryAfterHeader ==
    /\ Receiving /\ ReadOk /\ IsBinary(ReadBytes)
    /\ disk' = [disk EXCEPT ![Out].bytes = @ \o FileHeader(Received)]
    /\ chan' = Tail(chan)
    /\ UNCHANGED <<first, args, visited, jpc, ends>>
    /\ UNCHANGED <<scan, registry>>

\* Ok(contents) with a NUL byte: `continue`
RecvBinary ==
    /\ Receiving /\ ReadOk /\ IsBinary(ReadBytes)
    /\ chan' = Tail(chan)
    /\ UNCHANGED <<first, args, disk, visited, jpc, ends>>
    /\ UNCHANGED <<scan, registry>>

\* Ok(contents) without one: header, contents, newline
RecvText ==
    /\ Receiving /\ ReadOk /\ ~IsBinary(ReadBytes)
    /\ disk' = [disk EXCEPT ![Out].bytes =
                    @ \o FileHeader(Received) \o ReadBytes \o <<NL>>]
    /\ chan' = Tail(chan)
    /\ UNCHANGED <<first, args, visited, jpc, ends>>
    /\ UNCHANGED <<scan, registry>>

\* Err(e): the error is logged and the loop goes on
RecvError ==
    /\ Receiving /\ ~ReadOk
    /\ chan' = Tail(chan)
    /\ UNCHANGED <<first, args, disk, visited, jpc, ends>>
    /\ UNCHANGED <<scan, registry>>

\* The channel is empty and its senders are dropped: the iterator of rx
\* ends, rx is dropped with the loop, Ok(())
Finish ==
    /\ jpc = "recv" /\ chan = <<>>
    /\ senders = {}
    /\ jpc' = "done"
    /\ receiver' = "dropped"
    /\ UNCHANGED <<first, args, disk, visited, chan, senders>>
    /\ UNCHANGED <<scan, registry>>

NextJoin ==
    \/ ClearFile
    \/ StartWalk
    \/ \E t \in Threads : ThreadExit(t)
    \/ \E name \in Names : WalkIgnore(name)
    \/ \E name \in Names : WalkSkip(name)
    \/ \E name \in Names : WalkSend(name)
    \/ CreateOutput
    \/ RecvBinary
    \/ RecvText
    \/ RecvError
    \/ Finish

SpecJoin == InitJoin /\ [][NextJoin]_vars

\* run_join on a machine that keeps running it: the main thread and the
\* walker threads are scheduled as long as one of them has a step to take.
SpecJoinLive == InitJoin /\ [][NextJoin]_vars /\ WF_vars(NextJoin)

-----------------------------------------------------------------------------
(* Vocabulary of the properties *)

BlockOpen  == <<"/", "*">>
BlockClose == <<"*", "/">>

\* The newline bytes of s, in order.
Newlines(s) == SelectSeq(s, LAMBDA b : b = NL)

\* s[from+1 .. to], the input bytes between two cursor positions.
Between(from, to) == SubSeq(contents, from + 1, to)

\* needle occurs somewhere in s.
Occurs(needle, s) == find_subsequence(s, needle) # -1

IsBlank(b) == b = SP \/ b = TAB

\* A line-comment marker matches at the cursor while scanning code.
AtLineComment ==
    /\ InLoop /\ InCode
    /\ \E i \in 1..Len(lang.line_comments) : StartsWith(Remaining, lang.line_comments[i])

Returned(input, l) == pc = "done" /\ contents = input /\ lang = l

-----------------------------------------------------------------------------
(* C1: remove_comments is total.  For every input and every syntax whose   *)
(* delimiter strings are all non-empty, every loop iteration moves the     *)
(* cursor strictly forward and never past the end of the input, some step  *)
(* is possible until the function has returned, and it returns exactly     *)
(* when the cursor has reached the end of the input.                       *)

C1_Total ==
    /\ [](pc = "scan" => ENABLED Next)
    /\ [][NonEmptyDelimiters(lang) /\ pc = "scan" =>
            \/ /\ cursor < Len(contents)
               /\ cursor' > cursor /\ cursor' <= Len(contents)
               /\ pc' = "scan"
            \/ /\ cursor = Len(contents)
               /\ pc' = "done" /\ output' = output]_vars

-----------------------------------------------------------------------------
(* C2: string preservation.  From the quote start on, the output is the    *)
(* output at the quote start followed by the input bytes read since,       *)
(* verbatim, up to and including the end delimiter; no comment opens       *)
(* inside a string; `"http://x"; // c` becomes `"http://x";`.              *)

C2_StringPreserved ==
    /\ [][(InString \/ InString') =>
            /\ output' = mark'.out \o Between(mark'.at, cursor')
            /\ comment_stack' = <<>>]_vars
    /\ [](Returned(UrlSample, Rust) =>
            output = <<QUOTE, "h", "t", "t", "p", ":", "/", "/", "x", QUOTE, ";">>)

\* The string of UrlSample, which holds `//`, has just been closed.
C2_Witness ==
    /\ contents = UrlSample /\ InCode /\ cursor = 10
    /\ output = SubSeq(UrlSample, 1, 10)

-----------------------------------------------------------------------------
(* C3: nesting allowed.  `/* A /* B */ C */` strips to the empty output;   *)
(* inside a comment a start pushes one level and the top end delimiter     *)
(* pops one, the comment is left only from depth one, and code after the   *)
(* outermost end delimiter is emitted.                                     *)

C3_NestingAllowed ==
    /\ [][lang.allows_nested /\ InLoop /\ InComment =>
            /\ StartsWith(Remaining, BlockClose)
                  => Len(comment_stack') = Len(comment_stack) - 1
            /\ StartsWith(Remaining, BlockOpen)
                  => Len(comment_stack') = Len(comment_stack) + 1
            /\ InCode' => Len(comment_stack) = 1 /\ StartsWith(Remaining, BlockClose)]_vars
    /\ [](Returned(NestedSample, Rust) => output = <<>>)
    /\ [](Returned(NestedThenCode, Rust) => output = <<"x">>)

\* Both levels of NestedSample are open.
C3_Witness ==
    /\ contents = NestedSample /\ lang.allows_nested
    /\ Len(comment_stack) = 2

-----------------------------------------------------------------------------
(* C4: nesting not allowed.  `/* A /* B */ C */` strips to ` C */`; a      *)
(* block-comment start met inside a block comment is skipped as one        *)
(* comment byte and opens nothing.                                         *)

C4_NestingNotAllowed ==
    /\ [][~lang.allows_nested /\ InLoop /\ InComment /\ StartsWith(Remaining, BlockOpen) =>
            /\ comment_stack' = comment_stack
            /\ cursor' = cursor + 1
            /\ output' = output]_vars
    /\ [](Returned(NestedSample, C) => output = <<SP, "C", SP, "*", "/">>)

\* The scanner stands on the inner `/*` of NestedSample inside the comment.
C4_Witness ==
    /\ contents = NestedSample /\ ~lang.allows_nested
    /\ InComment /\ cursor = 5 /\ StartsWith(Remaining, BlockOpen)

-----------------------------------------------------------------------------
(* C5: line-comment trim.  When a line-comment marker matches in Code      *)
(* state the output loses exactly its maximal suffix of space and tab      *)
(* bytes; `code   // comment\n` becomes `code\n` and an indented           *)
(* comment-only line becomes an empty line.                                *)

-----------------------------------------------------------------------------
(* C6: blank-line preservation.  When a block comment closes, what it has  *)
(* added to the output since it was opened is exactly the newline bytes    *)
(* of its text, in number and nothing else.                                *)

-----------------------------------------------------------------------------
(* C7: a block comment is removed together with the spaces and tabs in     *)
(* front of it: `    /* a\n       b */\n    return 0; /* t */\n}` strips   *)
(* to `\n\n    return 0;\n}`, with no space before any newline.            *)

C7_BlockCommentTrim ==
    Returned(CBlockSample, C) =>
        /\ output = <<NL, NL, SP, SP, SP, SP,
                      "r", "e", "t", "u", "r", "n", SP, "0", ";", NL, "}">>
        /\ \A i \in 1..(Len(output) - 1) : ~(output[i] = SP /\ output[i + 1] = NL)

-----------------------------------------------------------------------------
(* C8: a line comment is removed from its marker up to, not including,     *)
(* the next newline; that newline is then emitted, so a comment-only line  *)
(* becomes an empty line; with no newline left the rest of the input is    *)
(* removed.                                                                *)

-----------------------------------------------------------------------------
(* C9: an unterminated block comment is no failure.  The function returns  *)
(* the output produced before the comment followed by the newline bytes    *)
(* inside the comment; `/* never closes` gives the empty output.           *)

C9_UnclosedBlockComment ==
    /\ pc = "done" /\ InComment =>
            output = mark.out \o Newlines(Between(mark.at, Len(contents)))
    /\ Returned(UnclosedSample, Rust) => output = <<>>
    /\ Returned(UnclosedLinesSample, Rust) => output = <<"f", SP, "{", NL, SP, SP, NL, NL>>

\* The function has returned from inside the comment of UnclosedLinesSample.
C9_Witness ==
    /\ pc = "done" /\ InComment
    /\ contents = UnclosedLinesSample /\ mark.at = 6

-----------------------------------------------------------------------------
(* C10: an unterminated string is no failure.  When the end delimiter      *)
(* does not occur in the rest of the input the scanner stays in the        *)
(* string, and the function returns the output at the quote start          *)
(* followed by every input byte from the quote start on, unchanged.        *)

C10_UnclosedString ==
    /\ [][InLoop /\ InString /\ ~Occurs(string_delimiter[1], Remaining) =>
            InString']_vars
    /\ [](pc = "done" /\ InString =>
            output = mark.out \o Between(mark.at, Len(contents)))
    /\ [](Returned(UnclosedStringSample, Rust) => output = UnclosedStringSample)

\* The function has returned from inside the string of UnclosedStringSample.
C10_Witness ==
    /\ pc = "done" /\ InString
    /\ contents = UnclosedStringSample /\ mark.at = 2

-----------------------------------------------------------------------------
(* C11: category priority in Code state.  When a line-comment marker       *)
(* matches at the cursor the step is the line-comment step, whatever else  *)
(* matches there; otherwise, when a block-comment start matches, the step  *)
(* opens a block comment, whatever quote start matches there; a string is  *)
(* opened only when a quote start matches and nothing of the other two     *)
(* categories does.  Lengths and table positions play no part.             *)

LineMatches ==
    \E i \in 1..Len(lang.line_comments) : StartsWith(Remaining, lang.line_comments[i])

BlockMatches ==
    \E i \in 1..Len(lang.multi_line_comments) :
        StartsWith(Remaining, lang.multi_line_comments[i][1])

QuoteMatches ==
    \E i \in 1..Len(lang.quotes) : StartsWith(Remaining, lang.quotes[i][1])

C11_CategoryPriority ==
    [][InLoop /\ InCode =>
         IF LineMatches
         THEN InCode' /\ Len(output') <= Len(output)
         ELSE IF BlockMatches
         THEN InComment' /\ output' = output
         ELSE IF QuoteMatches
         THEN InString' /\ Len(output') > Len(output)
         ELSE InCode' /\ output' = Append(output, Remaining[1])]_vars

\* In TieB ` /*` matched the line marker `/`, the block start `/*` and the
\* quote start `/` at offset 1: the line comment was taken.
C11_Witness ==
    /\ lang = TieB /\ contents = <<SP, "/", "*">>
    /\ cursor = 3 /\ InCode /\ output = <<>>

-----------------------------------------------------------------------------
(* C12: escape handling in strings.  Inside a string a backslash followed  *)
(* by another byte is copied with that byte as a pair and the scanner      *)
(* stays in the same string, so `\"` does not close a `"` string and the   *)
(* `//` after it is kept: `"a\"//b" x` is returned unchanged.              *)

C12_EscapeInString ==
    /\ [][InLoop /\ InString /\ Remaining[1] = BSL /\ Len(Remaining) > 1 =>
            /\ output' = output \o <<BSL, Remaining[2]>>
            /\ cursor' = cursor + 2
            /\ string_delimiter' = string_delimiter
            /\ comment_stack' = comment_stack]_vars
    /\ [](Returned(EscapeSample, Rust) => output = EscapeSample)

\* The escaped quote of EscapeSample has been copied and the string is still open.
C12_Witness ==
    /\ contents = EscapeSample /\ cursor = 4
    /\ InString /\ output = SubSeq(EscapeSample, 1, 4)

-----------------------------------------------------------------------------
(* C13: empty input.  For every syntax, remove_comments on the empty byte  *)
(* sequence returns the empty byte sequence, without a loop iteration.     *)

C13_EmptyInput ==
    pc = "done" /\ contents = <<>> => output = <<>> /\ cursor = 0

\* The function has returned on the empty input with the column-one syntax.
C13_Witness ==
    pc = "done" /\ contents = <<>> /\ lang = ColumnOne

-----------------------------------------------------------------------------
(* C14: identity on comment-free input.  When no line-comment marker and   *)
(* no block-comment start of the syntax occurs anywhere in the input, the  *)
(* returned output is the input, byte for byte, strings included.          *)

NoCommentStart(input, l) ==
    /\ \A i \in 1..Len(l.line_comments) : ~Occurs(l.line_comments[i], input)
    /\ \A i \in 1..Len(l.multi_line_comments) :
          ~Occurs(l.multi_line_comments[i][1], input)

C14_IdentityWithoutComments ==
    pc = "done" /\ first = <<>> /\ NoCommentStart(contents, lang) => output = contents

\* Returned from an input with an escape in a string that is never closed.
C14_Witness ==
    /\ pc = "done" /\ contents = <<"/", SP, QUOTE, BSL, QUOTE>>
    /\ lang = Rust /\ InString /\ output = contents

-----------------------------------------------------------------------------
(* C15: idempotence.  For every input in which no quote start delimiter of *)
(* the syntax occurs, calling remove_comments on its own output returns    *)
(* that output unchanged.                                                  *)

QuoteFree(input, l) ==
    \A i \in 1..Len(l.quotes) : ~Occurs(l.quotes[i][1], input)

C15_Idempotent ==
    pc = "done" /\ first # <<>> /\ QuoteFree(first[1], lang) => output = contents

\* The same statement for the two syntaxes whose line marker cannot be put
\* together from the bytes on either side of a block comment.
C15_IdempotentSlashes ==
    pc = "done" /\ first # <<>> /\ QuoteFree(first[1], lang) /\ lang \in Languages =>
        output = contents

-----------------------------------------------------------------------------
(* Vocabulary of the pipeline claims *)

\* Path::extension of the entries
ExtOf(name) ==
    CASE name = "a.rs"    -> "rs"
      [] name = "n.xyz"   -> "xyz"
      [] name = "b.bin"   -> "bin"
      [] name = "out.txt" -> "txt"
      [] name = ".h.rs"   -> "rs"
      [] OTHER            -> ""

\* An extension that some definition of the table lists.
Listed(ext) ==
    \E i \in 1..Len(TableNames) :
        \E j \in 1..Len(Table[TableNames[i]].extensions) :
            Table[TableNames[i]].extensions[j] = ext

\* The bytes of the concatenated output
OutBytes == disk[Out].bytes

\* A text file has been read and is about to be written.
Accepting == Receiving /\ ReadOk /\ ~IsBinary(ReadBytes)

-----------------------------------------------------------------------------
(* C16: unknown extension.  find_by_extension returns None for every       *)
(* extension that no language definition lists, and for a file with such   *)
(* an extension the bytes appended to the concatenated output, between the *)
(* header line and the closing newline, are the file's bytes.              *)

C16_UnknownExtension ==
    /\ [](\A ext \in Extensions : ~Listed(ext) => find_by_extension(ext) = <<>>)
    /\ [][Accepting /\ find_by_extension(ExtOf(FileOf(Received))) = <<>> =>
            disk'[Out].bytes = OutBytes \o FileHeader(Received) \o ReadBytes \o <<NL>>]_vars

\* The file n.xyz, whose extension is in no definition, has been appended first.
C16_Witness ==
    /\ jpc = "recv" /\ find_by_extension(ExtOf("n.xyz")) = <<>>
    /\ OutBytes = FileHeader(EntryPath("n.xyz")) \o disk["n.xyz"].bytes \o <<NL>>

-----------------------------------------------------------------------------
(* C17: pipeline integration.  For an accepted file whose extension        *)
(* resolves to a syntax, the bytes appended to the concatenated output are *)
(* the ones remove_comments returns for the file's bytes: for              *)
(* `code   // comment\n` in a .rs file, `code\n`.                          *)

\* remove_comments(TrimSample, Rust), as C5 establishes
TrimSampleStripped == <<"c", "o", "d", "e", NL>>

C17_StrippedBytesAppended ==
    [][Accepting /\ find_by_extension(ExtOf(FileOf(Received))) = <<Rust>>
                 /\ ReadBytes = TrimSample =>
          disk'[Out].bytes =
              OutBytes \o FileHeader(Received) \o TrimSampleStripped \o <<NL>>]_vars

-----------------------------------------------------------------------------
(* C18: strip_comments removes nested block comments for a nesting-allowed *)
(* language.  For the Rust input `/* outer /* inner */ still */` followed  *)
(* by `fn test() {}`, the output holds no comment delimiter and no comment *)
(* text and, with the whitespace at its two ends ignored, is               *)
(* `fn test() {}`.                                                         *)

IsSpace(b) == b = SP \/ b = TAB \/ b = NL

\* str::trim over the bytes of the model
RECURSIVE Trim(_)
Trim(s) ==
    IF s = <<>> THEN s
    ELSE IF IsSpace(s[1]) THEN Trim(Tail(s))
    ELSE IF IsSpace(s[Len(s)]) THEN Trim(SubSeq(s, 1, Len(s) - 1))
    ELSE s

FnTest == <<"f", "n", SP, "t", "e", "s", "t", "(", ")", SP, "{", "}">>

C18_StripNestedComments ==
    Returned(StripNestedSample, Rust) =>
        /\ ~Occurs(BlockOpen, output)
        /\ ~Occurs(BlockClose, output)
        /\ Trim(output) = FnTest

-----------------------------------------------------------------------------
(* C19: binary files are skipped.  For a file whose bytes contain a NUL    *)
(* byte, process_files writes nothing to the output, no header, no content *)
(* and no newline, and goes on with the next path.                         *)

C19_BinarySkipped ==
    /\ [][Receiving /\ ReadOk /\ IsBinary(ReadBytes) =>
            disk' = disk /\ chan' = Tail(chan) /\ jpc' = "recv"]_vars
    /\ [](~Occurs(<<"b.bin">>, OutBytes))

\* b.bin came out of the channel after a.rs and left no trace; n.xyz is next.
C19_Witness ==
    /\ jpc = "recv" /\ "b.bin" \in visited
    /\ chan = <<EntryPath("n.xyz")>>
    /\ OutBytes = FileHeader(EntryPath("a.rs")) \o RsBytes \o <<NL>>

-----------------------------------------------------------------------------
(* C20: the tool never includes its own output file.  The walker sends no  *)
(* directory path and no path equal to args.output_file, so the output     *)
(* never holds a `// FILE:` block for the output file.                     *)

\* What the walker sends is neither a directory nor equal to args.output_file.
C20_NeverSent ==
    [][jpc = "walk" /\ chan' # chan =>
          /\ ~is_dir(chan'[Len(chan')])
          /\ chan'[Len(chan')] # args.output_file]_vars

\* A header line that names the output file, under any spelling of its folder
OwnHeader(bytes) ==
    \E folder \in InputFolders : Occurs(FileHeader(folder \o <<Out>>), bytes)

C20_OutputFileNotIncluded ==
    /\ C20_NeverSent
    /\ [](~OwnHeader(OutBytes))

-----------------------------------------------------------------------------
(* C21: previous content of the output file never survives a join run.     *)
(* With clear_file set the file is removed before the walk; in both cases  *)
(* process_files starts from an empty file, and from then on the output    *)
(* only grows by what the run appends, so after run_join has returned none *)
(* of the old bytes is in it.                                              *)

C21_OldContentGone ==
    /\ [][jpc = "clear" /\ args.clear_file /\ exists(args.output_file) =>
            disk'[Out] = Absent]_vars
    /\ [][jpc = "walk" /\ jpc' = "recv" => disk'[Out] = RegularFile(<<>>)]_vars
    /\ [](jpc \in {"recv", "done"} => ~Occurs(OldBytes, OutBytes))

\* run_join has returned; clear_file was not set and the walker saw the old
\* output file, which made it into the channel under another spelling.
C21_Witness ==
    /\ jpc = "done" /\ ~args.clear_file /\ "out.txt" \in visited
    /\ OutBytes # <<>> /\ ~Occurs(OldBytes, OutBytes)

-----------------------------------------------------------------------------
(* C22: exclusion overrides inclusion.  An entry that matches an exclude   *)
(* pattern, or the pattern `.*` when hidden is false, is never sent to the *)
(* processor, also when it matches an include pattern: the negated rules   *)
(* come after the include rules in the override set.                       *)

\* The entry matches one of the globs of the list.
MatchesAny(globs, name) == \E i \in 1..Len(globs) : GlobMatches(globs[i], name)

Excluded(name) ==
    \/ args.exclude # <<>> /\ MatchesAny(args.exclude[1], name)
    \/ ~args.hidden /\ GlobMatches(".*", name)

C22_ExclusionWins ==
    /\ [](\A j \in 1..Len(Overrides) : Overrides[j].negated => j > Len(IncludeRules))
    /\ [][\A name \in Names :
             Excluded(name) /\ name \notin visited /\ name \in visited' =>
                 chan' = chan]_vars
    /\ [](\A name \in Names : \A i \in 1..Len(chan) :
             Excluded(name) => FileOf(chan[i]) # name)

\* The walk is over: a.rs and .h.rs match the include pattern `*.rs`, the
\* first also the exclusion `a.*`, the second the hidden-file rule; neither
\* is in the channel, n.xyz is.
C22_Witness ==
    /\ jpc = "walk" /\ {"a.rs", ".h.rs", "n.xyz"} \subseteq visited
    /\ args.patterns # <<>> /\ args.exclude # <<>> /\ ~args.hidden
    /\ \E i \in 1..Len(chan) : FileOf(chan[i]) = "n.xyz"

-----------------------------------------------------------------------------
(* C23: empty directory.  When the walker has sent no path, process_files  *)
(* still creates the output file, writes no byte to it and returns Ok.     *)

C23_EmptyDirectory ==
    /\ [][jpc = "walk" /\ jpc' = "recv" /\ chan = <<>> =>
            disk'[Out] = RegularFile(<<>>) /\ chan' = <<>>]_vars
    /\ [][jpc = "recv" /\ chan = <<>> => jpc' = "done" /\ disk' = disk]_vars

\* run_join has returned from an empty directory: the output file is there
\* and empty.
C23_Witness ==
    /\ jpc = "done" /\ visited = {}
    /\ \A name \in Names \ {Out} : disk[name] = Absent
    /\ disk[Out] = RegularFile(<<>>)

-----------------------------------------------------------------------------
(* C24: the scanner's states are mutually exclusive.  In every reachable   *)
(* state of remove_comments a string delimiter is active only while the    *)
(* comment stack is empty, and the comment stack is non-empty only while   *)
(* no string delimiter is active; each of the two changes only in a step   *)
(* in which the other is empty before and after.                           *)

C24_ExclusiveStates ==
    /\ [](~(string_delimiter # <<>> /\ comment_stack # <<>>))
    /\ [][string_delimiter' # string_delimiter =>
            comment_stack = <<>> /\ comment_stack' = <<>>]_vars
    /\ [][comment_stack' # comment_stack =>
            string_delimiter = <<>> /\ string_delimiter' = <<>>]_vars

\* A string has been opened right after a block comment was closed.
C24_Witness ==
    /\ contents = <<"/", "*", "*", "/", QUOTE>>
    /\ pc = "scan" /\ cursor = Len(contents)
    /\ string_delimiter = <<(<<QUOTE>>)>> /\ comment_stack = <<>>

-----------------------------------------------------------------------------
(* C25: while the comment stack is non-empty the only bytes appended to    *)
(* the output are newline bytes, each for a newline of the input; the step *)
(* that opens a comment appends nothing.  Start delimiters, end delimiters *)
(* and comment content are not emitted, at any nesting depth.              *)

C25_OnlyNewlinesInComment ==
    /\ [][pc = "scan" /\ comment_stack # <<>> =>
            \/ output' = output
            \/ Remaining[1] = NL /\ output' = Append(output, NL)]_vars
    /\ [][comment_stack = <<>> /\ comment_stack' # <<>> => output' = output]_vars

\* Two levels deep, a newline of the comment has been copied and nothing else.
C25_Witness ==
    /\ contents = <<"/", "*", "/", "*", NL>> /\ cursor = Len(contents)
    /\ Len(comment_stack) > 1 /\ output = <<NL>>

-----------------------------------------------------------------------------
(* C26: inside a block comment line-comment markers, quote starts and      *)
(* backslashes have no effect.  A step in comment state that finds neither *)
(* the end delimiter on top of the stack nor, with nesting allowed, a      *)
(* block start, moves one byte on and keeps the stack and the empty string *)
(* delimiter; `/* " // \*/ x` leaves ` x` with and without nesting.        *)

C26_NoEffectInComment ==
    /\ [][InLoop /\ InComment /\ ~StartsWith(Remaining, TopEnd)
                 /\ ~(lang.allows_nested /\ BlockMatches) =>
            /\ cursor' = cursor + 1
            /\ comment_stack' = comment_stack
            /\ string_delimiter' = <<>>]_vars
    /\ [](pc = "done" /\ contents = QuoteInCommentSample => output = <<SP, "x">>)

\* The quote, the `//` and the backslash of the comment are passed; the next
\* bytes are its end delimiter.
C26_Witness ==
    /\ contents = QuoteInCommentSample /\ cursor = 9
    /\ comment_stack = <<BlockClose>> /\ string_delimiter = <<>> /\ output = <<>>

-----------------------------------------------------------------------------
(* C27: with several block-comment pairs and nesting allowed only the end  *)
(* delimiter on top of the stack closes a level.  The stack shrinks only   *)
(* by its last element and only when the remaining input starts with that  *)
(* element; the end delimiter of an outer level met while an inner level   *)
(* of another pair is open is comment content: nothing is emitted and the  *)
(* open levels stay.  `/* /x */ x/ */ y` leaves ` y`.                      *)

InnermostEnd == comment_stack[Len(comment_stack)]

OuterEndMatches ==
    \E k \in 1..(Len(comment_stack) - 1) : StartsWith(Remaining, comment_stack[k])

C27_TopOfStackCloses ==
    /\ [][InLoop /\ InComment /\ Len(comment_stack') < Len(comment_stack) =>
            /\ StartsWith(Remaining, InnermostEnd)
            /\ comment_stack' = SubSeq(comment_stack, 1, Len(comment_stack) - 1)]_vars
    /\ [][InLoop /\ InComment /\ ~StartsWith(Remaining, InnermostEnd) /\ OuterEndMatches =>
            /\ output' = output
            /\ Len(comment_stack') >= Len(comment_stack)
            /\ SubSeq(comment_stack', 1, Len(comment_stack)) = comment_stack]_vars
    /\ [](Returned(PairsSample, TwoPairs) => output = <<SP, "y">>)

\* The `*/` inside the inner `/x` comment has been passed with both levels open.
C27_Witness ==
    /\ contents = PairsSample /\ lang = TwoPairs /\ cursor = 8
    /\ comment_stack = <<BlockClose, <<"x", "/">> >> /\ output = <<>>

-----------------------------------------------------------------------------
(* C28: table order within a category.  When several block starts, or      *)
(* several quote starts, match at the cursor, the pair listed first in the *)
(* syntax is the one taken, also when a later one is longer:               *)
(* `""/**b*/c` with `/*` listed before `/**` and `"` before `""` leaves    *)
(* `""c`.                                                                  *)

FirstListed(pairs) ==
    CHOOSE i \in 1..Len(pairs) :
        /\ StartsWith(Remaining, pairs[i][1])
        /\ \A j \in 1..(i - 1) : ~StartsWith(Remaining, pairs[j][1])

C28_FirstListedWins ==
    /\ [][InLoop /\ InCode /\ ~LineMatches /\ BlockMatches =>
            LET pair == lang.multi_line_comments[FirstListed(lang.multi_line_comments)]
            IN  comment_stack' = <<pair[2]>> /\ cursor' = cursor + Len(pair[1])]_vars
    /\ [][InLoop /\ InCode /\ ~LineMatches /\ ~BlockMatches /\ QuoteMatches =>
            LET pair == lang.quotes[FirstListed(lang.quotes)]
            IN  /\ string_delimiter' = <<pair[2]>>
                /\ output' = output \o pair[1]
                /\ cursor' = cursor + Len(pair[1])]_vars
    /\ [][InLoop /\ InComment /\ ~StartsWith(Remaining, InnermostEnd)
                 /\ lang.allows_nested /\ BlockMatches =>
            LET pair == lang.multi_line_comments[FirstListed(lang.multi_line_comments)]
            IN  /\ comment_stack' = Append(comment_stack, pair[2])
                /\ cursor' = cursor + Len(pair[1])]_vars
    /\ [](Returned(PrefixSample, Prefixed) => output = <<QUOTE, QUOTE, "c">>)

\* At `/**` both block starts match; `/*` has been taken, its end is awaited.
C28_Witness ==
    /\ contents = PrefixSample /\ lang = Prefixed /\ cursor = 4
    /\ comment_stack = <<BlockClose>> /\ output = <<QUOTE, QUOTE>>

-----------------------------------------------------------------------------
(* C29: depth of the comment stack.  Without nesting the stack never holds *)
(* more than one end delimiter.  With nesting every step changes its depth *)
(* by one up for a block start matched and one down for an end delimiter   *)
(* matched, and by nothing else; as the depth is zero in Code state, it is *)
(* the number of starts matched minus the number of ends matched since     *)
(* Code state was left.                                                    *)

EndMatched == InLoop /\ InComment /\ StartsWith(Remaining, InnermostEnd)

StartMatched ==
    /\ InLoop
    /\ \/ InCode /\ ~LineMatches /\ BlockMatches
       \/ InComment /\ ~StartsWith(Remaining, InnermostEnd) /\ BlockMatches

C29_StackDepth ==
    /\ [](~lang.allows_nested => Len(comment_stack) <= 1)
    /\ [](InCode => Len(comment_stack) = 0)
    /\ [][lang.allows_nested =>
            Len(comment_stack') = Len(comment_stack)
                                    + (IF StartMatched THEN 1 ELSE 0)
                                    - (IF EndMatched THEN 1 ELSE 0)]_vars

\* Two starts and one end matched: one level is open.
C29_Witness ==
    /\ contents = NestedThenCode /\ lang = Rust /\ cursor = 6
    /\ Len(comment_stack) = 1

-----------------------------------------------------------------------------
(* C30: bounds safety.  In every reachable state the cursor is between 0   *)
(* and the input length, so remaining[0] is read only where it exists; the *)
(* pair remaining[0..2] is read only when two bytes remain, and a          *)
(* backslash that is the last input byte inside a string is copied as one  *)
(* byte; at loop exit the cursor equals the input length.                  *)

C30_BoundsSafety ==
    /\ [](cursor \in 0..Len(contents))
    /\ [](pc = "done" => cursor = Len(contents))
    /\ [][InLoop /\ InString /\ Remaining = <<BSL>>
                 /\ ~StartsWith(Remaining, string_delimiter[1]) =>
            output' = Append(output, BSL) /\ cursor' = cursor + 1]_vars
    /\ [][InLoop /\ cursor' > cursor + 1 =>
            Len(Remaining) >= cursor' - cursor]_vars

\* Returned from a string that ends in a lone backslash.
C30_Witness ==
    /\ pc = "done" /\ contents = <<"x", QUOTE, BSL>>
    /\ InString /\ output = contents /\ cursor = Len(contents)

-----------------------------------------------------------------------------
(* C31: the output stays within the input.  In every state of a call the   *)
(* output holds at most as many bytes as the cursor has consumed and is a  *)
(* subsequence of the consumed input; the returned output is therefore a   *)
(* subsequence of the input and never longer than it.                      *)

\* s can be obtained from t by deleting bytes.
RECURSIVE IsSubsequence(_, _)
IsSubsequence(s, t) ==
    IF s = <<>> THEN TRUE
    ELSE IF t = <<>> THEN FALSE
    ELSE IF Head(s) = Head(t) THEN IsSubsequence(Tail(s), Tail(t))
    ELSE IsSubsequence(s, Tail(t))

C31_OutputWithinInput ==
    /\ Len(output) <= cursor
    /\ IsSubsequence(output, SubSeq(contents, 1, cursor))
    /\ pc = "done" => Len(output) <= Len(contents) /\ IsSubsequence(output, contents)

\* `x/**/` returned as `x`: the comment's bytes are deleted, nothing is added.
C31_Witness ==
    /\ pc = "done" /\ contents = <<"x", "/", "*", "*", "/">>
    /\ output = <<"x">> /\ cursor = 5

-----------------------------------------------------------------------------
(* C32: newline count.  For a syntax none of whose delimiters contains a   *)
(* newline byte, the output holds as many newline bytes as the input       *)
(* consumed so far, and the returned output as many as the whole input.    *)

NoNewlineInDelimiters(l) ==
    /\ \A i \in 1..Len(l.line_comments) : Newlines(l.line_comments[i]) = <<>>
    /\ \A i \in 1..Len(l.multi_line_comments) :
          /\ Newlines(l.multi_line_comments[i][1]) = <<>>
          /\ Newlines(l.multi_line_comments[i][2]) = <<>>
    /\ \A i \in 1..Len(l.quotes) :
          Newlines(l.quotes[i][1]) = <<>> /\ Newlines(l.quotes[i][2]) = <<>>

-----------------------------------------------------------------------------
(* C33: the only step that takes bytes off the output is the line-comment  *)
(* step, and what it takes off is exactly the maximal suffix of space and  *)
(* tab bytes: no newline, no other byte, and nothing of a string literal   *)
(* that ended with a non-blank delimiter.  Every other step leaves the     *)
(* output as it is or appends to it.                                       *)

IsPrefix(s, t) == Len(s) <= Len(t) /\ s = SubSeq(t, 1, Len(s))

C33_OnlyTrimRemoves ==
    [][pc = "scan" =>
         IF AtLineComment
         THEN /\ IsPrefix(output', output)
              /\ \A i \in (Len(output') + 1)..Len(output) : IsBlank(output[i])
              /\ output' # <<>> => ~IsBlank(output'[Len(output')])
              /\ \A i \in 1..Len(output) : ~IsBlank(output[i]) => i <= Len(output')
         ELSE IsPrefix(output, output')]_vars

\* `" " //c`: the space inside the literal stays, the one after it has gone.
C33_Witness ==
    /\ contents = StringTrimSample /\ InCode
    /\ cursor = 7 /\ output = <<QUOTE, SP, QUOTE>>

-----------------------------------------------------------------------------
(* C34: registry consistency.  In the registry LanguageDB::new returns,    *)
(* every extension some definition lists is mapped to exactly one language *)
(* name, that name is a key of `languages` and its definition lists the    *)
(* extension; when several definitions list it, the name is the last of    *)
(* them in sorted order, and a lookup returns that definition's Language.  *)

ListedBy(ext, name) ==
    \E j \in 1..Len(Table[name].extensions) : Table[name].extensions[j] = ext

\* The last name, in the order of the BTreeMap, whose definition lists ext.
LastLister(ext) ==
    TableNames[CHOOSE i \in 1..Len(TableNames) :
                  /\ ListedBy(ext, TableNames[i])
                  /\ \A j \in (i + 1)..Len(TableNames) : ~ListedBy(ext, TableNames[j])]

C34_RegistryConsistent ==
    db # <<>> =>
        /\ \A ext \in Extensions : Listed(ext) =>
              /\ ext \in DOMAIN db[1].ext_map
              /\ db[1].ext_map[ext] \in DOMAIN db[1].languages
              /\ ListedBy(ext, db[1].ext_map[ext])
              /\ db[1].ext_map[ext] = LastLister(ext)
        /\ \A name \in DOMAIN db[1].languages : db[1].languages[name] = Table[name].language
        /\ found # <<>> /\ Listed(found[1].ext) =>
              found[1].result = <<Table[LastLister(found[1].ext)].language>>

\* `h`, listed by C and by Cpp, has been looked up: the answer is Cpp.
C34_Witness ==
    /\ found = <<[ext |-> "h", result |-> <<Cpp>>]>>
    /\ ListedBy("h", "C") /\ ListedBy("h", "Cpp")

-----------------------------------------------------------------------------
(* C35: the registry is read-only.  Once built, the registry is the same   *)
(* in every later state, whatever lookups and calls of remove_comments are *)
(* made and however they interleave; a call never changes the Language it  *)
(* was given, which stays an entry of the registry; and what a lookup      *)
(* returns depends on the extension alone, not on the calls before it.     *)

C35_RegistryReadOnly ==
    /\ [][db # <<>> => db' = db]_vars
    /\ [][pc = "scan" => lang' = lang]_vars
    /\ [](pc = "scan" => \E name \in DOMAIN db[1].languages : lang = db[1].languages[name])
    /\ [](found # <<>> => found[1].result = find_by_extension(found[1].ext))

\* After a lookup and a complete call with its handle, a second lookup of the
\* same extension has returned the same Language.
C35_Witness ==
    /\ pc = "done" /\ contents = NestedSample /\ lang = Rust
    /\ found = <<[ext |-> "rs", result |-> <<Rust>>]>>
    /\ db = <<LanguageDB>>

-----------------------------------------------------------------------------
(* C36: the pipeline terminates.  When process_files starts to receive,    *)
(* the traversal is over and no sender of the channel is left, so the      *)
(* receive loop ends once the queued paths are consumed: every run of      *)
(* run_join reaches its end.                                               *)

C36_Terminates ==
    /\ <>(jpc = "done")
    /\ [](jpc \in {"recv", "done"} => senders = {})
    /\ [][jpc # "walk" => visited' = visited /\ Len(chan') <= Len(chan)]_vars

\* The run is over: the loop has ended after writing a file.
C36_Witness ==
    /\ jpc = "done" /\ senders = {} /\ receiver = "dropped"
    /\ chan = <<>> /\ "a.rs" \in visited /\ OutBytes # <<>>

-----------------------------------------------------------------------------
(* C37: no walker thread panics on send.  As long as a sender is alive the *)
(* receiver is alive too: it is dropped only by the receive loop, after    *)
(* the last sender has gone and the channel is empty, so that no           *)
(* tx.send() returns an error.                                             *)

C37_NoSendPanic ==
    /\ [](jpc # "panicked")
    /\ [](senders # {} => receiver = "live")
    /\ [][receiver' # receiver =>
            \/ receiver = "none" /\ receiver' = "live" /\ jpc = "walk"
            \/ /\ receiver = "live" /\ receiver' = "dropped"
               /\ jpc = "recv" /\ senders = {} /\ chan = <<>>]_vars

\* Two paths have been sent and the threads are still at work.
C37_Witness ==
    /\ jpc = "walk" /\ receiver = "live"
    /\ Len(chan) = 2 /\ Threads \subseteq senders

-----------------------------------------------------------------------------
(* C38: every path is handled exactly once.  The channel changes only by   *)
(* one new path being queued by the walker or by its head being taken by   *)
(* the receive loop; no path is queued twice and none is left at the end.  *)
(* Each path taken is handled in one step: a readable file without NUL     *)
(* byte adds its header line, its bytes and a newline to the output as one *)
(* contiguous block, any other path adds nothing.                          *)

C38_ExactlyOnce ==
    /\ [][chan' # chan =>
            \/ /\ jpc = "walk"
               /\ \E name \in Names \ visited :
                     /\ visited' = visited \cup {name}
                     /\ chan' = Append(chan, EntryPath(name))
            \/ Receiving /\ chan' = Tail(chan)]_vars
    /\ [][Receiving =>
            /\ chan' = Tail(chan)
            /\ OutBytes' = IF Accepting
                           THEN OutBytes \o FileHeader(Received) \o ReadBytes \o <<NL>>
                           ELSE OutBytes]_vars
    /\ [](\A i, j \in 1..Len(chan) : chan[i] = chan[j] => i = j)
    /\ [](jpc = "done" => chan = <<>>)

\* n.xyz was sent before a.rs: the output holds their two blocks, whole and
\* in that order.
C38_Witness ==
    /\ jpc = "done" /\ chan = <<>>
    /\ OutBytes = FileHeader(EntryPath("n.xyz")) \o Tree["n.xyz"].bytes \o <<NL>>
                  \o FileHeader(EntryPath("a.rs")) \o RsBytes \o <<NL>>

====
